---- MODULE Spec2Model ----
(***************************************************************************)
(* Model of three pages of the news portal frontend: the dashboard Group   *)
(* controller (frontend/src/app/DashboardApp/Group.js), the Bookmark page  *)
(* (frontend/src/app/NewsApp/Bookmark.js) and the SubscriptionDetail page  *)
(* (frontend/src/app/DashboardApp/SubscriptionDetails.js).  For each: the  *)
(* React component state, the requests in flight, the pending one-shot     *)
(* timers, and one action per event handler or callback.                   *)
(***************************************************************************)
EXTENDS Integers, Sequences, FiniteSets, Bags, TLC

(***************************************************************************)
(* Bounds of the model.                                                    *)
(***************************************************************************)
MaxId == 2          \* entity ids are 1..MaxId
MaxRows == 2        \* the collection holds at most MaxRows rows
MaxInFlight == 2    \* requests awaiting their response
MaxTimers == 1      \* pending one-shot timers of each kind
MaxPage == 2        \* cap of the page counter

(***************************************************************************)
(* JavaScript values, tagged by type.                                      *)
(***************************************************************************)
Undef == [t |-> "undefined"]
Null == [t |-> "null"]
Num(n) == [t |-> "number", v |-> n]
Str(s) == [t |-> "string", v |-> s]
Bool(b) == [t |-> "boolean", v |-> b]
Arr(s) == [t |-> "array", v |-> s]
Obj(r) == [t |-> "object", v |-> r]

\* ToBoolean
Truthy(x) ==
    CASE x.t \in {"undefined", "null"} -> FALSE
      [] x.t = "boolean" -> x.v
      [] x.t = "number" -> x.v # 0
      [] x.t = "string" -> x.v # ""
      [] OTHER -> TRUE

\* o[k] / o.k : a missing property, or a property of a primitive, is undefined
Get(o, k) == IF o.t = "object" /\ k \in DOMAIN o.v THEN o.v[k] ELSE Undef

\* o[k] = x
Put(o, k, x) ==
    Obj([f \in (DOMAIN o.v) \cup {k} |-> IF f = k THEN x ELSE o.v[f]])

\* a || b
Or(a, b) == IF Truthy(a) THEN a ELSE b

\* JSON.stringify: a property whose value is undefined is left out of an
\* object, and an undefined element of an array becomes null
RECURSIVE Stringify(_)
Stringify(x) ==
    CASE x.t = "object" ->
           LET keep == {f \in DOMAIN x.v : x.v[f] # Undef}
           IN  Obj([f \in keep |-> Stringify(x.v[f])])
      [] x.t = "array" ->
           Arr([i \in 1..Len(x.v) |->
                   IF x.v[i] = Undef THEN Null ELSE Stringify(x.v[i])])
      [] OTHER -> x

EmptyObj == Obj([f \in {} |-> Undef])

(***************************************************************************)
(* The data the backend serves.  Ids are positive; a Group row holds a     *)
(* list of category references and one campaign reference.                 *)
(***************************************************************************)
Ids == 1..MaxId

CategoryRef == Obj([id |-> Num(1), name |-> Str("cat1")])
CampaignRef == Obj([id |-> Num(1), name |-> Str("camp1")])

\* the groups of the backend: group 1 has no category, the others have one;
\* group 2 has no campaign
CategoriesOf(id) == IF id = 1 THEN <<>> ELSE <<CategoryRef>>
CampaignOf(id) == IF id = 2 THEN Null ELSE CampaignRef
ServerRow(id) ==
    Obj([id |-> Num(id), category |-> Arr(CategoriesOf(id)),
         campaign |-> CampaignOf(id), is_active |-> Bool(TRUE)])
ServerRows == {ServerRow(id) : id \in Ids}

\* the rows of one page
RECURSIVE SeqsUpTo(_, _)
SeqsUpTo(S, n) ==
    IF n = 0 THEN {<<>>}
    ELSE LET shorter == SeqsUpTo(S, n - 1)
         IN  shorter \cup {Append(s, x) : s \in {t \in shorter : Len(t) = n - 1}, x \in S}
PageRows == SeqsUpTo(ServerRows, MaxRows)

NextCursor == Str("/group/?page=next")
PreviousCursor == Str("/group/?page=previous")
PageCursors ==
    {[next |-> Null, previous |-> Null],
     [next |-> NextCursor, previous |-> Null],
     [next |-> Null, previous |-> PreviousCursor]}

\* the bodies a collection GET is answered with: a page, or a bare array
PageBodies ==
    {Obj([results |-> Arr(rs), next |-> c.next, previous |-> c.previous]) :
        rs \in PageRows, c \in PageCursors}
GetBodies == PageBodies \cup {Arr(<<>>)}

\* the categories and campaigns served for the two selects
CatalogueBody ==
    Obj([categories |-> Arr(<<CategoryRef>>), campaigns |-> Arr(<<CampaignRef>>)])

Queries == {"a"}

(***************************************************************************)
(* URLs and requests.                                                      *)
(***************************************************************************)
GROUP_URL == [t |-> "url", base |-> "GROUP_URL", q |-> Undef, id |-> Undef]
CATEGORIES_CAMPAIGN_URL ==
    [t |-> "url", base |-> "CATEGORIES_CAMPAIGN_URL", q |-> Undef, id |-> Undef]
\* GROUP_URL + "?q=" + q
SearchUrl(query) == [GROUP_URL EXCEPT !.q = query]
\* GROUP_URL + id + "/"
EntityUrl(id) == [GROUP_URL EXCEPT !.id = id]

\* a request in flight: what the transport was called with and, for the
\* record only, the handler that issued it and the row id that handler was
\* called for (no handler reads by)
Request(method, url, body, callback, extra, op, arg) ==
    [method |-> method, url |-> url, body |-> body, cb |-> callback,
     extra |-> extra, by |-> [op |-> op, arg |-> arg]]
NoRequest == [t |-> "none"]
NoExtra == [t |-> "none"]
CleanResults == [t |-> "extra", clean_results |-> TRUE]

(***************************************************************************)
(* State.                                                                  *)
(*   modal .. page   this.state of the component                           *)
(*   fieldsAt        editRow makes this.state.fields the very object at    *)
(*                   results[index]: fieldsAt is that index while the      *)
(*                   object is an element of results, else 0               *)
(*   rows            EditRowState, by entity id (unset reads as false)     *)
(*   net             requests whose callback has not run yet               *)
(*   timers          setTimeout callbacks that have not fired yet          *)
(*   domRemoved      rows of #group-table taken out of the document by     *)
(*                   deleteRow: 0 is the header row, i the row rendered    *)
(*                   from results[i]                                       *)
(*   reloading       window.location.reload() was called                   *)
(*   crashed         a render has thrown and React has unmounted the tree  *)
(*   last            the handler or callback that ran last                 *)
(***************************************************************************)
VARIABLES mounted, modal, fields, fieldsAt, errors, rows, formSuccess,
          categories, campaigns, results, next, previous, loading, q, page,
          net, timers, domRemoved, reloading, crashed, last

\* the Group page
groupVars == <<mounted, modal, fields, fieldsAt, errors, rows, formSuccess,
               categories, campaigns, results, next, previous, loading, q,
               page, net, timers, domRemoved, reloading, crashed, last>>

(***************************************************************************)
(* State of the Bookmark page (frontend/src/app/NewsApp/Bookmark.js).      *)
(*   cookies         the names of the cookies that are set                 *)
(*   bookmarked      the articles the backend holds as bookmarked          *)
(*   href            window.location.href of the page                      *)
(*   bookmark        this.state of the component, and whether it is        *)
(*                   mounted                                               *)
(*   article_array   the module-level array of the file                    *)
(*   bookmarkNet     requests whose callback has not run yet               *)
(*   bookmarkTimers  setTimeout callbacks that have not fired yet          *)
(*   bookmarkLast    the handler or callback that ran last                 *)
(***************************************************************************)
VARIABLES cookies, bookmarked, href, bookmark, article_array, bookmarkNet,
          bookmarkTimers, bookmarkLast

bookmarkVars == <<cookies, bookmarked, href, bookmark, article_array,
                  bookmarkNet, bookmarkTimers, bookmarkLast>>

(***************************************************************************)
(* State of the SubscriptionDetail page                                    *)
(* (frontend/src/app/DashboardApp/SubscriptionDetails.js).                 *)
(*   subscription      this.state of the component, and whether it is      *)
(*                     mounted                                             *)
(*   subscriptionNet   requests whose callback has not run yet             *)
(*   subscriptionLast  the handler or callback that ran last               *)
(***************************************************************************)
VARIABLES subscription, subscriptionNet, subscriptionLast

subscriptionVars == <<subscription, subscriptionNet, subscriptionLast>>

vars == <<groupVars, bookmarkVars, subscriptionVars>>

NoSnapshot == [t |-> "none"]
NoToast == [t |-> "none"]
Toast(msg, level) == [t |-> "toast", msg |-> msg, level |-> level]
NoRow == 0 - 1

\* what the last handler did: the handler, the row id or index it was called
\* for (handleScroll: 1 when the window is scrolled to the bottom), the request whose response it received and that response's body, the
\* requests it issued, the collection and FormFields it started from (editRow
\* and the cancelRow that follows it), its notification, and the row it took
\* out of the table
Event(op, arg, req, data, sent, pre, toast, removed) ==
    [op |-> op, arg |-> arg, req |-> req, data |-> data, sent |-> sent,
     pre |-> pre, toast |-> toast, removed |-> removed]
Did(op, arg, sent) ==
    Event(op, arg, NoRequest, Undef, sent, NoSnapshot, NoToast, NoRow)
Received(op, req, data, sent, toast) ==
    Event(op, 0, req, data, sent, NoSnapshot, toast, NoRow)

InFlight == BagCardinality(net)
SendAll(reqs) == net (+) SetToBag({reqs[i] : i \in DOMAIN reqs})
Take(req) == net (-) SetToBag({req})
Pending(callback) == {r \in BagToSet(net) : r.cb = callback}
PendingTimers(kind) == {t \in BagToSet(timers) : t.kind = kind}

\* the event loop runs handlers of a live page only
Alive == mounted /\ ~crashed

\* a <tr> of the table body: the entity id in its data-row attribute and
\* its place in the table; index 0 is an element no longer in the document
Element(row, index) == [t |-> "element", row |-> row, index |-> index]
Detached(el) == [el EXCEPT !.index = 0]

\* React takes the <tr> elements in Gone out of the document: the references
\* that requests and timers hold to them are now to detached elements
DetachRequest(r, Gone) ==
    IF r.extra.t = "element" /\ r.extra.index \in Gone
    THEN [r EXCEPT !.extra = Detached(@)] ELSE r
DetachTimer(tm, Gone) ==
    IF tm.kind = "delete" /\ tm.findrow.index \in Gone
    THEN [tm EXCEPT !.findrow = Detached(@)] ELSE tm
DetachedNet(Gone) == LET D(r) == DetachRequest(r, Gone) IN BagOfAll(D, net)
DetachedTimers(Gone) == LET D(tm) == DetachTimer(tm, Gone) IN BagOfAll(D, timers)

(***************************************************************************)
(* The Bookmark page: the articles of the backend, the requests of the     *)
(* page and the state after construction.                                  *)
(***************************************************************************)
MaxArticle == 3        \* article ids are 1..MaxArticle
MaxArticleArray == 4   \* cap of the length of article_array

Articles == 1..MaxArticle
\* the articles of the backend: article 3 has no cover image
CoverImageOf(a) == IF a = 3 THEN Null ELSE Str("cover.png")
Article(a) ==
    Obj([id |-> Num(a), title |-> Str("title"), blurb |-> Str("blurb"),
         source |-> Str("source"), slug |-> Str("slug"),
         category |-> Str("category"), hash_tags |-> Arr(<<>>),
         published_on |-> Str("2020-01-01"),
         cover_image |-> CoverImageOf(a)])

\* the session cookies, set together at sign-in
SessionCookies == {"full_name", "token"}
\* cookies.get(name): the cookies hold a non-empty string, or are not set
CookieGet(name) == IF name \in cookies THEN Str(name) ELSE Undef

DOMAIN_QUERY == "domain=DOMAIN"
\* MENUS + "?" + this.state.domain, and the like
BookmarkUrl(base, query) == [t |-> "url", base |-> base, query |-> query]
\* {"Authorization": "Token " + cookies.get('token'), "Content-Type": ...}
TokenHeaders ==
    [t |-> "headers", Authorization |-> <<"Token ", CookieGet("token")>>]
NoHeaders == [t |-> "none"]
BookmarkRequest(method, url, headers, body, callback) ==
    [method |-> method, url |-> url, headers |-> headers, body |-> body,
     cb |-> callback]
\* getRequest(ALL_ARTICLE_BOOKMARK + "?" + this.state.domain,
\*            this.getBookmarksArticles, headers)
GetAllBookmarks ==
    BookmarkRequest("GET", BookmarkUrl("ALL_ARTICLE_BOOKMARK", DOMAIN_QUERY),
                    TokenHeaders, Undef, "getBookmarksArticles")

\* what the last handler of the page did: the handler, the article it was
\* called for or answered about, the requests it issued, and whether a
\* bookmarks response has been applied since the page was loaded
BookmarkEvent(op, arg, sent, fetched) ==
    [op |-> op, arg |-> arg, sent |-> sent, fetched |-> fetched]
BookmarkDid(op, arg, sent) == BookmarkEvent(op, arg, sent, bookmarkLast.fetched)

BookmarkConstructed ==
    [mounted |-> FALSE,
     newsPosts |-> <<>>,
     menus |-> <<>>,
     isLoading |-> TRUE,
     isSideOpen |-> TRUE,
     modal |-> FALSE,
     is_loggedin |-> FALSE,
     is_loggedin_validation |-> FALSE,
     is_captcha |-> FALSE,
     username |-> CookieGet("full_name"),
     bookmark_ids |-> <<>>,
     isChecked |-> FALSE,
     options |-> <<>>,
     is_bookmark_empty |-> FALSE]

BookmarkInit ==
    /\ cookies = {}
    /\ bookmarked = Articles
    /\ href = "/bookmark/"
    /\ bookmark = BookmarkConstructed
    /\ article_array = <<>>
    /\ bookmarkNet = EmptyBag
    /\ bookmarkTimers = 0
    /\ bookmarkLast = BookmarkEvent("constructor", 0, <<>>, FALSE)

(***************************************************************************)
(* The SubscriptionDetail page: the subscription of the backend and the    *)
(* state after construction.                                               *)
(***************************************************************************)
SUBSCRIPTION_ID == 7   \* ID, the subscription the page was rendered for

\* the subscription the backend holds
SubscriptionResults(subs_type, auto_renew) ==
    Obj([id |-> Num(SUBSCRIPTION_ID), email |-> Str("user@example.com"),
         subs_type |-> Str(subs_type), payement_mode |-> Str("Basic"),
         auto_renew |-> auto_renew, created_at |-> Str("2020-01-01")])
SubscriptionBodies ==
    {Obj([results |-> SubscriptionResults(subs_type, auto_renew)]) :
        subs_type \in {"Basic", "Monthly"},
        auto_renew \in {Bool(TRUE), Bool(FALSE)}}

\* what the last handler of the page did: the handler, the results of the
\* response it received, the requests it issued, its notification, and the
\* id the last fetch response brought (undefined while none has been applied)
SubscriptionEvent(op, data, sent, toast, fetched) ==
    [op |-> op, data |-> data, sent |-> sent, toast |-> toast,
     fetched |-> fetched]
SubscriptionDid(op, sent, toast) ==
    SubscriptionEvent(op, Undef, sent, toast, subscriptionLast.fetched)

SubscriptionConstructed ==
    [mounted |-> FALSE,
     isSideOpen |-> TRUE,
     id |-> Str(""),
     email |-> Str(""),
     subs_type |-> Str("Basic"),
     autoRenew |-> Str("Yes"),
     payement_mode |-> Str("Basic"),
     createdOn |-> Str(""),
     username |-> Str("USERNAME"),
     isChecked |-> FALSE,
     loading |-> Undef]

SubscriptionInit ==
    /\ subscription = SubscriptionConstructed
    /\ subscriptionNet = EmptyBag
    /\ subscriptionLast = SubscriptionEvent("constructor", Undef, <<>>, NoToast, Undef)

Init ==
    /\ mounted = FALSE
    /\ modal = FALSE
    /\ fields = EmptyObj
    /\ fieldsAt = 0
    /\ errors = EmptyObj
    /\ rows = [i \in Ids |-> FALSE]
    /\ formSuccess = FALSE
    /\ categories = <<>>
    /\ campaigns = <<>>
    /\ results = <<>>
    /\ next = Null
    /\ previous = Null
    /\ loading = FALSE
    /\ q = ""
    /\ page = 0
    /\ net = EmptyBag
    /\ timers = EmptyBag
    /\ domRemoved = {}
    /\ reloading = FALSE
    /\ crashed = FALSE
    /\ last = Did("constructor", 0, <<>>)
    /\ BookmarkInit
    /\ SubscriptionInit

(***************************************************************************)
(* Helpers shared by the handlers.                                         *)
(***************************************************************************)
RowId(row) == Get(row, "id").v
Rendered == (1..Len(results)) \ domRemoved
\* the rows whose Save/Cancel buttons, resp. Edit/Delete buttons, are shown
InEdit == {i \in Rendered : rows[RowId(results[i])]}
InView == {i \in Rendered : ~rows[RowId(results[i])]}
\* the page behind the modal takes clicks and keys only while it is closed
PageUsable == Alive /\ ~modal

\* getGroups, called by handler op
GetGroups(op) == Request("GET", GROUP_URL, Undef, "getGroupsData", NoExtra, op, 0)

\* this.setState({results: []}): React removes every <tr> of the table body;
\* removing one that deleteRow already took out of the document throws
ClearThrows == Rendered # 1..Len(results)
AllRows == 1..Len(results)

\* an in-place change of this.state.fields is a change of the row it is
WithFields(f) == IF fieldsAt > 0 THEN [results EXCEPT ![fieldsAt] = f] ELSE results

(***************************************************************************)
(* componentDidMount                                                       *)
(***************************************************************************)
ComponentDidMount ==
    /\ ~mounted
    /\ LET sent == <<GetGroups("componentDidMount"),
                     Request("GET", CATEGORIES_CAMPAIGN_URL, Undef,
                             "getCampaignCategories", NoExtra,
                             "componentDidMount", 0)>>
       IN  /\ net' = SendAll(sent)
           /\ last' = Did("componentDidMount", 0, sent)
    /\ mounted' = TRUE
    /\ UNCHANGED <<modal, fields, fieldsAt, errors, rows, formSuccess,
                   categories, campaigns, results, next, previous, loading,
                   q, page, timers, domRemoved, reloading, crashed>>
    /\ UNCHANGED <<bookmarkVars, subscriptionVars>>

\* one entry of the select options built from a served reference
OptionOf(item) ==
    Obj([value |-> Get(item, "id"), label |-> Get(item, "name"),
         name |-> Get(item, "name")])
OptionsOf(list) ==
    IF Truthy(list) THEN [i \in 1..Len(list.v) |-> OptionOf(list.v[i])] ELSE <<>>

GetCampaignCategories(r) ==
    /\ Alive
    /\ r \in Pending("getCampaignCategories")
    /\ categories' = OptionsOf(Get(CatalogueBody, "categories"))
    /\ campaigns' = OptionsOf(Get(CatalogueBody, "campaigns"))
    /\ net' = Take(r)
    /\ last' = Received("getCampaignCategories", r, CatalogueBody, <<>>, NoToast)
    /\ UNCHANGED <<mounted, modal, fields, fieldsAt, errors, rows, formSuccess,
                   results, next, previous, loading, q, page, timers,
                   domRemoved, reloading, crashed>>
    /\ UNCHANGED <<bookmarkVars, subscriptionVars>>

(***************************************************************************)
(* Search box                                                              *)
(***************************************************************************)
HandleQueryChange(value) ==
    /\ PageUsable
    /\ q' = value
    /\ last' = Did("handleQueryChange", 0, <<>>)
    /\ UNCHANGED <<mounted, modal, fields, fieldsAt, errors, rows, formSuccess,
                   categories, campaigns, results, next, previous, loading,
                   page, net, timers, domRemoved, reloading, crashed>>
    /\ UNCHANGED <<bookmarkVars, subscriptionVars>>

Keys == {"Enter", "a"}

HandleKeyPress(key) ==
    /\ PageUsable
    /\ IF key = "Enter"
       THEN LET sent == <<Request("GET", SearchUrl(Str(q)), Undef,
                                  "getGroupsData", NoExtra, "handleKeyPress", 0)>>
            IN  /\ InFlight < MaxInFlight
                /\ results' = <<>>
                /\ fieldsAt' = 0
                /\ crashed' = ClearThrows
                /\ domRemoved' = domRemoved \ AllRows
                /\ net' = LET cleared == DetachedNet(AllRows)
                          IN  cleared (+) SetToBag({sent[1]})
                /\ timers' = DetachedTimers(AllRows)
                /\ last' = Did("handleKeyPress", 0, sent)
       ELSE /\ last' = Did("handleKeyPress", 0, <<>>)
            /\ UNCHANGED <<results, fieldsAt, crashed, domRemoved, net, timers>>
    /\ UNCHANGED <<mounted, modal, fields, errors, rows, formSuccess,
                   categories, campaigns, next, previous, loading, q, page,
                   reloading>>
    /\ UNCHANGED <<bookmarkVars, subscriptionVars>>

(***************************************************************************)
(* Collection loading                                                      *)
(***************************************************************************)
\* the collection replaced by the rows of body
Replaced(body) ==
    IF body.t # "array" THEN Get(body, "results").v ELSE results

\* the collection after getGroupsData has received body
Appended(body) ==
    IF body.t # "array" THEN results \o Get(body, "results").v ELSE results

GetGroupsData(r, body) ==
    /\ Alive
    /\ r \in Pending("getGroupsData")
    /\ Len(Appended(body)) <= MaxRows
    /\ results' = Appended(body)
    /\ next' = Get(body, "next")
    /\ previous' = Get(body, "previous")
    /\ loading' = FALSE
    /\ net' = Take(r)
    /\ last' = Received("getGroupsData", r, body, <<>>, NoToast)
    /\ UNCHANGED <<mounted, modal, fields, fieldsAt, errors, rows, formSuccess,
                   categories, campaigns, q, page, timers, domRemoved,
                   reloading, crashed>>
    /\ UNCHANGED <<bookmarkVars, subscriptionVars>>

\* the guard without its test of the cursor
ShouldLoadNextWhateverCursor == ~loading

\* the guard of handleScroll around getNext
ShouldLoadNext == ~loading /\ Truthy(next)

\* getNext, called by handleScroll when the window is scrolled to the bottom
HandleScroll(atBottom) ==
    /\ Alive
    /\ IF atBottom /\ ShouldLoadNext
       THEN LET sent == <<Request("GET", next, Undef, "getGroupsData", NoExtra,
                                  "getNext", 0)>>
            IN  /\ InFlight < MaxInFlight
                /\ page < MaxPage
                /\ loading' = TRUE
                /\ page' = page + 1
                /\ net' = SendAll(sent)
                /\ last' = Did("handleScroll", 1, sent)
       ELSE /\ last' = Did("handleScroll", IF atBottom THEN 1 ELSE 0, <<>>)
            /\ UNCHANGED <<loading, page, net>>
    /\ UNCHANGED <<mounted, modal, fields, fieldsAt, errors, rows, formSuccess,
                   categories, campaigns, results, next, previous, q, timers,
                   domRemoved, reloading, crashed>>
    /\ UNCHANGED <<bookmarkVars, subscriptionVars>>

(***************************************************************************)
(* Validation and field changes                                            *)
(***************************************************************************)
required_msg == Str("This fields is required")

\* the errors object handleValidation builds for fields f
ValidationErrors(f) ==
    LET categoryChecked ==
            IF ~Truthy(Get(f, "category"))
            THEN Put(EmptyObj, "category", required_msg) ELSE EmptyObj
    IN  IF ~Truthy(Get(f, "campaign"))
        THEN Put(categoryChecked, "campaign", required_msg)
        ELSE categoryChecked

\* handleValidation returning true whatever the fields
FormAlwaysValid(f) == TRUE

\* the formIsValid flag handleValidation returns for fields f
FormIsValid(f) ==
    LET categoryChecked == IF ~Truthy(Get(f, "category")) THEN FALSE ELSE TRUE
    IN  IF ~Truthy(Get(f, "campaign")) THEN FALSE ELSE categoryChecked

\* the selection objects handleChange stores in edit rows
SelectedDict(item) ==
    Obj([value |-> Get(item, "value"), label |-> Get(item, "name"),
         name |-> Get(item, "name")])

\* this.state.fields after handleChange(field, e, is_editable)
Changed(field, e, is_editable) ==
    CASE field = "category" ->
           IF e # Null /\ Len(e.v) > 0
           THEN Put(fields, field,
                    Arr([i \in 1..Len(e.v) |->
                            IF is_editable THEN SelectedDict(e.v[i])
                            ELSE Get(e.v[i], "value")]))
           ELSE fields
      [] field = "is_active" -> Put(fields, field, e)
      [] OTHER ->
           IF e # Null
           THEN Put(fields, field,
                    IF is_editable THEN SelectedDict(e) ELSE Get(e, "value"))
           ELSE fields

\* what the selects and the checkbox can hand to handleChange
Selections(field) ==
    CASE field = "category" ->
           {Null} \cup {Arr(<<categories[i]>>) : i \in DOMAIN categories}
      [] field = "campaign" ->
           {Null} \cup {campaigns[i] : i \in DOMAIN campaigns}
      [] OTHER -> {Bool(TRUE), Bool(FALSE)}

HandleChange(field, e, is_editable) ==
    /\ Alive
    /\ e \in Selections(field)
       \* the modal's selects; the selects and the checkbox of a row in edit mode
    /\ \/ modal /\ ~is_editable /\ field # "is_active"
       \/ ~modal /\ InEdit # {} /\ (is_editable <=> field # "is_active")
    /\ fields' = Changed(field, e, is_editable)
    /\ results' = WithFields(fields')
    /\ errors' = ValidationErrors(fields')
    /\ last' = Did("handleChange", 0, <<>>)
    /\ UNCHANGED <<mounted, modal, fieldsAt, rows, formSuccess, categories,
                   campaigns, next, previous, loading, q, page, net, timers,
                   domRemoved, reloading, crashed>>
    /\ UNCHANGED <<bookmarkVars, subscriptionVars>>

(***************************************************************************)
(* Create                                                                  *)
(***************************************************************************)
Toggle ==
    /\ Alive
    /\ modal' = ~modal
    /\ last' = Did("toggle", 0, <<>>)
    /\ UNCHANGED <<mounted, fields, fieldsAt, errors, rows, formSuccess,
                   categories, campaigns, results, next, previous, loading, q,
                   page, net, timers, domRemoved, reloading, crashed>>
    /\ UNCHANGED <<bookmarkVars, subscriptionVars>>

GroupSubmit ==
    /\ Alive
    /\ modal
    /\ errors' = ValidationErrors(fields)
    /\ IF FormIsValid(fields)
       THEN LET sent == <<Request("POST", GROUP_URL, Stringify(fields),
                                  "groupSubmitResponse", CleanResults,
                                  "groupSubmit", 0)>>
            IN  /\ InFlight < MaxInFlight
                /\ net' = SendAll(sent)
                /\ last' = Did("groupSubmit", 0, sent)
                /\ UNCHANGED formSuccess
       ELSE /\ formSuccess' = FALSE
            /\ last' = Did("groupSubmit", 0, <<>>)
            /\ UNCHANGED net
    /\ UNCHANGED <<mounted, modal, fields, fieldsAt, rows, categories,
                   campaigns, results, next, previous, loading, q, page,
                   timers, domRemoved, reloading, crashed>>
    /\ UNCHANGED <<bookmarkVars, subscriptionVars>>

CreatedBody == Obj([Msg |-> Str("created")])
CloseTimer(clean) == [kind |-> "create", clean_results |-> clean]

GroupSubmitResponse(r) ==
    /\ Alive
    /\ r \in Pending("groupSubmitResponse")
    /\ Cardinality(PendingTimers("create")) < MaxTimers
    /\ formSuccess' = TRUE
    /\ timers' = timers (+) SetToBag({CloseTimer(r.extra.clean_results)})
    /\ net' = Take(r)
    /\ last' = Received("groupSubmitResponse", r, CreatedBody, <<>>, NoToast)
    /\ UNCHANGED <<mounted, modal, fields, fieldsAt, errors, rows, categories,
                   campaigns, results, next, previous, loading, q, page,
                   domRemoved, reloading, crashed>>
    /\ UNCHANGED <<bookmarkVars, subscriptionVars>>

\* the callback groupSubmitResponse hands to setTimeout(..., 3000)
CloseTimerFires(tm) ==
    /\ Alive
    /\ tm \in PendingTimers("create")
    /\ InFlight < MaxInFlight
    /\ modal' = FALSE
    /\ formSuccess' = FALSE
    /\ IF tm.clean_results
       THEN /\ results' = <<>>
            /\ loading' = TRUE
            /\ fieldsAt' = 0
            /\ crashed' = ClearThrows
            /\ domRemoved' = domRemoved \ AllRows
            /\ net' = DetachedNet(AllRows) (+) SetToBag({GetGroups("closeTimer")})
            /\ timers' = DetachedTimers(AllRows) (-) SetToBag({tm})
       ELSE /\ net' = SendAll(<<GetGroups("closeTimer")>>)
            /\ timers' = timers (-) SetToBag({tm})
            /\ UNCHANGED <<results, loading, fieldsAt, crashed, domRemoved>>
    /\ last' = Did("closeTimer", 0, <<GetGroups("closeTimer")>>)
    /\ UNCHANGED <<mounted, fields, errors, rows, categories, campaigns, next,
                   previous, q, page, reloading>>
    /\ UNCHANGED <<bookmarkVars, subscriptionVars>>

(***************************************************************************)
(* Inline edit                                                             *)
(***************************************************************************)
\* the dict editRow builds from one element of the row's category list
CategoryDict(item) ==
    Obj([value |-> Or(Get(item, "id"), Get(item, "value")),
         label |-> Get(item, "name"), name |-> Get(item, "name")])
\* the dict editRow builds from the row's campaign
CampaignDict(campaign) ==
    Obj([value |-> Get(campaign, "id"), label |-> Get(campaign, "name"),
         name |-> Get(campaign, "name")])

\* the row object after editRow has rewritten its category and campaign
Edited(row) ==
    LET category == Get(row, "category")
        campaign == Get(row, "campaign")
        selected_category_array ==
            IF category # Null
            THEN [i \in 1..Len(category.v) |-> CategoryDict(category.v[i])]
            ELSE <<>>
        campaign_array ==
            IF campaign \notin {Null, Undef}
            THEN <<CampaignDict(campaign)>> ELSE <<>>
    IN  Put(Put(row, "category", Arr(selected_category_array)),
            "campaign",
            IF Len(campaign_array) > 0 THEN campaign_array[1] ELSE Undef)

EditRow(index) ==
    /\ PageUsable
    /\ index \in InView
    /\ fields' = Edited(results[index])
    /\ results' = [results EXCEPT ![index] = fields']
    /\ fieldsAt' = index
    /\ rows' = [rows EXCEPT ![RowId(results[index])] = TRUE]
    /\ last' = Event("editRow", index, NoRequest, Undef, <<>>,
                     [results |-> results, fields |-> fields], NoToast, NoRow)
    /\ UNCHANGED <<mounted, modal, errors, formSuccess, categories, campaigns,
                   next, previous, loading, q, page, net, timers, domRemoved,
                   reloading, crashed>>
    /\ UNCHANGED <<bookmarkVars, subscriptionVars>>

CancelRow(index) ==
    /\ PageUsable
    /\ index \in InEdit
    /\ rows' = [rows EXCEPT ![RowId(results[index])] = FALSE]
    /\ last' = Event("cancelRow", index, NoRequest, Undef, <<>>,
                     IF last.op = "editRow" /\ last.arg = index
                     THEN last.pre ELSE NoSnapshot,
                     NoToast, NoRow)
    /\ UNCHANGED <<mounted, modal, fields, fieldsAt, errors, formSuccess,
                   categories, campaigns, results, next, previous, loading, q,
                   page, net, timers, domRemoved, reloading, crashed>>
    /\ UNCHANGED <<bookmarkVars, subscriptionVars>>

\* the body and the URL submitRow builds from this.state.fields
UpdateBody ==
    LET category == Get(fields, "category")
        final_category == [i \in 1..Len(category.v) |-> Get(category.v[i], "value")]
    IN  Obj([campaign |-> Get(Get(fields, "campaign"), "value"),
             category |-> Arr(final_category),
             id |-> Get(fields, "id"),
             is_active |-> Get(fields, "is_active")])
UpdateUrl == EntityUrl(Get(fields, "id"))

\* Save on the row of entity id (the handler does not read the button's data-id)
SubmitRow(id) ==
    /\ PageUsable
    /\ \E i \in InEdit : RowId(results[i]) = id
    /\ errors' = ValidationErrors(fields)
    /\ IF FormIsValid(fields)
       THEN LET sent == <<Request("PUT", UpdateUrl, Stringify(UpdateBody),
                                  "groupUpdateResponse", CleanResults,
                                  "submitRow", id)>>
            IN  /\ InFlight < MaxInFlight
                /\ net' = SendAll(sent)
                /\ last' = Did("submitRow", id, sent)
       ELSE /\ last' = Did("submitRow", id, <<>>)
            /\ UNCHANGED net
    /\ UNCHANGED <<mounted, modal, fields, fieldsAt, rows, formSuccess,
                   categories, campaigns, results, next, previous, loading, q,
                   page, timers, domRemoved, reloading, crashed>>
    /\ UNCHANGED <<bookmarkVars, subscriptionVars>>

\* the backend answers a PUT with the entity of the URL
UpdatedBody(r) == Obj([id |-> r.url.id])

GroupUpdateResponse(r) ==
    /\ Alive
    /\ r \in Pending("groupUpdateResponse")
    /\ LET data == UpdatedBody(r)
           dataindex == Get(data, "id").v
       IN  /\ rows' = [rows EXCEPT ![dataindex] = FALSE]
           /\ last' = Received("groupUpdateResponse", r, data,
                               <<GetGroups("groupUpdateResponse")>>,
                               Toast("Group Updated successfully", "success"))
    /\ IF r.extra.clean_results
       THEN /\ results' = <<>>
            /\ loading' = TRUE
            /\ fieldsAt' = 0
            /\ crashed' = ClearThrows
            /\ domRemoved' = domRemoved \ AllRows
            /\ net' = (DetachedNet(AllRows) (-) SetToBag({r}))
                        (+) SetToBag({GetGroups("groupUpdateResponse")})
            /\ timers' = DetachedTimers(AllRows)
       ELSE /\ net' = Take(r) (+) SetToBag({GetGroups("groupUpdateResponse")})
            /\ UNCHANGED <<results, loading, fieldsAt, crashed, domRemoved,
                           timers>>
    /\ UNCHANGED <<mounted, modal, fields, errors, formSuccess, categories,
                   campaigns, next, previous, q, page, reloading>>
    /\ UNCHANGED <<bookmarkVars, subscriptionVars>>

\* the transport notifies with the default level
PutFailureNotifiedAsSuccess(r) ==
    /\ Alive
    /\ r \in Pending("groupUpdateResponse")
    /\ net' = Take(r)
    /\ last' = Received("requestFailed", r, Undef, <<>>,
                        Toast("Something went wrong", "success"))
    /\ UNCHANGED <<mounted, modal, fields, fieldsAt, errors, rows, formSuccess,
                   categories, campaigns, results, next, previous, loading, q,
                   page, timers, domRemoved, reloading, crashed>>
    /\ UNCHANGED <<bookmarkVars, subscriptionVars>>

\* the PUT of submitRow fails (network or server): the transport shows its
\* generic error toast and abandons the operation; the callback never runs
PutRequestFails(r) ==
    /\ Alive
    /\ r \in Pending("groupUpdateResponse")
    /\ net' = Take(r)
    /\ last' = Received("requestFailed", r, Undef, <<>>,
                        Toast("Something went wrong", "error"))
    /\ UNCHANGED <<mounted, modal, fields, fieldsAt, errors, rows, formSuccess,
                   categories, campaigns, results, next, previous, loading, q,
                   page, timers, domRemoved, reloading, crashed>>
    /\ UNCHANGED <<bookmarkVars, subscriptionVars>>

(***************************************************************************)
(* Delete                                                                  *)
(***************************************************************************)
\* document.body.querySelector('[data-row="' + id + '"]')
FindRow(id) ==
    LET found == {i \in Rendered : RowId(results[i]) = id}
    IN  Element(id, CHOOSE i \in found : \A j \in found : i <= j)

DeleteRow(id) ==
    /\ PageUsable
    /\ \E i \in InView : RowId(results[i]) = id
    /\ InFlight < MaxInFlight
    /\ LET sent == <<Request("DELETE", EntityUrl(Num(id)), Undef,
                             "deleteGroupResponse", FindRow(id),
                             "deleteRow", id)>>
       IN  /\ net' = SendAll(sent)
           /\ last' = Did("deleteRow", id, sent)
    /\ UNCHANGED <<mounted, modal, fields, fieldsAt, errors, rows, formSuccess,
                   categories, campaigns, results, next, previous, loading, q,
                   page, timers, domRemoved, reloading, crashed>>
    /\ UNCHANGED <<bookmarkVars, subscriptionVars>>

DeletedBody == Obj([Msg |-> Str("Group deleted successfully")])
FadeTimer(findrow) == [kind |-> "delete", findrow |-> findrow]

DeleteGroupResponse(r) ==
    /\ Alive
    /\ r \in Pending("deleteGroupResponse")
    /\ Cardinality(PendingTimers("delete")) < MaxTimers
    /\ timers' = timers (+) SetToBag({FadeTimer(r.extra)})
    /\ reloading' = TRUE
    /\ net' = Take(r)
    /\ last' = Received("deleteGroupResponse", r, DeletedBody, <<>>,
                        Toast(Get(DeletedBody, "Msg").v, "success"))
    /\ UNCHANGED <<mounted, modal, fields, fieldsAt, errors, rows, formSuccess,
                   categories, campaigns, results, next, previous, loading, q,
                   page, domRemoved, crashed>>
    /\ UNCHANGED <<bookmarkVars, subscriptionVars>>

\* the rows of #group-table in the document, the header row being row 0
TableRows == (0..Len(results)) \ domRemoved
\* findrow.rowIndex: -1 for an element that is in no table
RowIndex(findrow) == IF findrow.index > 0 THEN findrow.index ELSE 0 - 1
\* the rows table.deleteRow(index) removes: deleteRow(-1) removes the last row
DeletedRows(index) ==
    IF index >= 0 THEN {index}
    ELSE IF TableRows = {} THEN {}
         ELSE {CHOOSE i \in TableRows : \A j \in TableRows : j <= i}
\* the data-row of a table row (0 for the header row)
DataRow(i) == IF i = 0 THEN 0 ELSE RowId(results[i])

\* the callback deleteGroupResponse hands to setTimeout(..., 1000)
FadeTimerFires(tm) ==
    /\ Alive
    /\ tm \in PendingTimers("delete")
    /\ LET gone == DeletedRows(RowIndex(tm.findrow))
       IN  /\ domRemoved' = domRemoved \cup gone
           /\ net' = DetachedNet(gone)
           /\ timers' = DetachedTimers(gone) (-) SetToBag({DetachTimer(tm, gone)})
           /\ last' = Event("fadeTimer", tm.findrow.row, NoRequest, Undef, <<>>,
                            NoSnapshot, NoToast,
                            IF gone = {} THEN NoRow
                            ELSE DataRow(CHOOSE i \in gone : TRUE))
    /\ UNCHANGED <<mounted, modal, fields, fieldsAt, errors, rows, formSuccess,
                   categories, campaigns, results, next, previous, loading, q,
                   page, reloading, crashed>>
    /\ UNCHANGED <<bookmarkVars, subscriptionVars>>

\* the reload called for by deleteGroupResponse replaces the document: the
\* component is constructed anew, and nothing of the old page is left
Unload ==
    /\ reloading
    /\ mounted' = FALSE
    /\ modal' = FALSE
    /\ fields' = EmptyObj
    /\ fieldsAt' = 0
    /\ errors' = EmptyObj
    /\ rows' = [i \in Ids |-> FALSE]
    /\ formSuccess' = FALSE
    /\ categories' = <<>>
    /\ campaigns' = <<>>
    /\ results' = <<>>
    /\ next' = Null
    /\ previous' = Null
    /\ loading' = FALSE
    /\ q' = ""
    /\ page' = 0
    /\ net' = EmptyBag
    /\ timers' = EmptyBag
    /\ domRemoved' = {}
    /\ reloading' = FALSE
    /\ crashed' = FALSE
    /\ last' = Did("constructor", 0, <<>>)
    /\ UNCHANGED <<bookmarkVars, subscriptionVars>>

(***************************************************************************)
(* The Bookmark page: handlers and callbacks.                              *)
(***************************************************************************)
MaxBookmarkInFlight == 3   \* requests of the page awaiting their response
MaxBookmarkTimers == 1     \* pending isLoading timers

BookmarkAlive == bookmark.mounted
BookmarkInFlight == BagCardinality(bookmarkNet)
BookmarkSend(reqs) == bookmarkNet (+) SetToBag({reqs[i] : i \in DOMAIN reqs})
BookmarkPending(callback) == {r \in BagToSet(bookmarkNet) : r.cb = callback}
\* cookies.get('full_name') as a condition
HasFullName == Truthy(CookieGet("full_name"))

BookmarkDidMount ==
    /\ ~bookmark.mounted
    /\ href = "/bookmark/"
    /\ LET menu == BookmarkRequest("GET", BookmarkUrl("MENUS", DOMAIN_QUERY),
                                   NoHeaders, Undef, "getMenu")
           sent == IF HasFullName THEN <<menu, GetAllBookmarks>> ELSE <<menu>>
       IN  /\ bookmarkNet' = BookmarkSend(sent)
           /\ bookmarkLast' = BookmarkDid("componentDidMount", 0, sent)
    /\ bookmark' = [bookmark EXCEPT
                       !.mounted = TRUE,
                       !.is_loggedin = IF HasFullName THEN TRUE ELSE @,
                       !.isChecked = Truthy(CookieGet("isChecked")),
                       !.isSideOpen = Truthy(CookieGet("isSideOpen"))]
    /\ href' = IF HasFullName THEN href ELSE "/"
    /\ UNCHANGED <<cookies, bookmarked, article_array, bookmarkTimers>>
    /\ UNCHANGED <<groupVars, subscriptionVars>>

\* the menu entries the backend serves: one with a heading, one without
MenuBody ==
    Obj([results |-> Arr(<<
        Obj([heading |-> Obj([name |-> Str("Top News"), category_id |-> Num(1),
                              icon |-> Str("icon")])]),
        Obj([heading |-> Null])>>)])
\* "news/" + name.replace(" ", "-").toLowerCase()
ItemUrl(name) == <<"news/", [lowercased |-> [firstSpaceToDash |-> name]]>>
HeadingDict(heading) ==
    Obj([itemtext |-> Get(heading, "name"),
         itemurl |-> ItemUrl(Get(heading, "name")),
         item_id |-> Get(heading, "category_id"),
         item_icon |-> Get(heading, "icon")])

GetMenu(r) ==
    /\ BookmarkAlive
    /\ r \in BookmarkPending("getMenu")
    /\ LET items == Get(MenuBody, "results").v
           headed == SelectSeq(items, LAMBDA item : Truthy(Get(item, "heading")))
           menus_array == [i \in 1..Len(headed) |->
                              HeadingDict(Get(headed[i], "heading"))]
       IN  bookmark' = [bookmark EXCEPT !.menus = menus_array]
    /\ bookmarkNet' = bookmarkNet (-) SetToBag({r})
    /\ bookmarkLast' = BookmarkDid("getMenu", 0, <<>>)
    /\ UNCHANGED <<cookies, bookmarked, href, article_array, bookmarkTimers>>
    /\ UNCHANGED <<groupVars, subscriptionVars>>

\* toggle(data): the login modal
BookmarkToggle(data) ==
    /\ BookmarkAlive
    /\ bookmark' = [bookmark EXCEPT !.modal = ~Truthy(data)]
    /\ bookmarkLast' = BookmarkDid("toggle", 0, <<>>)
    /\ UNCHANGED <<cookies, bookmarked, href, article_array, bookmarkNet,
                   bookmarkTimers>>
    /\ UNCHANGED <<groupVars, subscriptionVars>>

\* the login modal has signed the user in: the session cookies are set and
\* loggedInUser(data) is called
LoggedInUser(data) ==
    /\ BookmarkAlive
    /\ bookmark.modal
    /\ cookies' = cookies \cup SessionCookies
    /\ bookmark' = [bookmark EXCEPT !.username = data, !.is_loggedin = TRUE]
    /\ bookmarkLast' = BookmarkDid("loggedInUser", 0, <<>>)
    /\ UNCHANGED <<bookmarked, href, article_array, bookmarkNet,
                   bookmarkTimers>>
    /\ UNCHANGED <<groupVars, subscriptionVars>>

\* the ids of the cards on screen (skeletons stand in while isLoading)
Displayed == {Get(bookmark.newsPosts[i], "id").v : i \in DOMAIN bookmark.newsPosts}

\* fetchArticleBookmark(articleId)
FetchArticleBookmark(articleId) ==
    BookmarkRequest("POST", BookmarkUrl("ARTICLE_BOOKMARK", DOMAIN_QUERY),
                    TokenHeaders, Stringify(Obj([article_id |-> Num(articleId)])),
                    "articleBookmarkResponse")

\* the bookmark button of a card posting whatever the cookies
GetArticleIdUnchecked(articleId) ==
    /\ BookmarkAlive
    /\ ~bookmark.isLoading
    /\ articleId \in Displayed
    /\ LET sent == <<FetchArticleBookmark(articleId)>>
       IN  /\ BookmarkInFlight < MaxBookmarkInFlight
           /\ bookmarkNet' = BookmarkSend(sent)
           /\ bookmarkLast' = BookmarkDid("getArticleId", articleId, sent)
    /\ UNCHANGED <<cookies, bookmarked, href, bookmark, article_array,
                   bookmarkTimers>>
    /\ UNCHANGED <<groupVars, subscriptionVars>>

\* the bookmark button of a card
GetArticleId(articleId) ==
    /\ BookmarkAlive
    /\ ~bookmark.isLoading
    /\ articleId \in Displayed
    /\ IF HasFullName
       THEN LET sent == <<FetchArticleBookmark(articleId)>>
            IN  /\ BookmarkInFlight < MaxBookmarkInFlight
                /\ bookmarkNet' = BookmarkSend(sent)
                /\ bookmarkLast' = BookmarkDid("getArticleId", articleId, sent)
                /\ UNCHANGED bookmark
       ELSE /\ bookmark' = [bookmark EXCEPT !.modal = ~Truthy(Undef)]
            /\ bookmarkLast' = BookmarkDid("getArticleId", articleId, <<>>)
            /\ UNCHANGED bookmarkNet
    /\ UNCHANGED <<cookies, bookmarked, href, article_array, bookmarkTimers>>
    /\ UNCHANGED <<groupVars, subscriptionVars>>

\* Array.prototype.indexOf: the 0-based index of the first element strictly
\* equal to x, or -1
IndexOf(s, x) ==
    LET found == {i \in DOMAIN s : s[i] = x}
    IN  IF found = {} THEN 0 - 1
        ELSE (CHOOSE i \in found : \A j \in found : i <= j) - 1

\* s after s.splice(start, deleteCount): a negative start counts from the end
Splice(s, start, deleteCount) ==
    LET len == Len(s)
        from == IF start < 0
                THEN (IF len + start > 0 THEN len + start ELSE 0)
                ELSE (IF start < len THEN start ELSE len)
        count == IF deleteCount < len - from THEN deleteCount ELSE len - from
    IN  SubSeq(s, 1, from) \o SubSeq(s, from + count + 1, len)

\* the backend answers the POST with the bookmark it has deleted; article is
\* the article's id, a value parsed from the response
BookmarkedBody(r) ==
    Obj([bookmark_article |-> Obj([article |-> Get(r.body, "article_id")])])

ArticleBookmarkResponse(r) ==
    /\ BookmarkAlive
    /\ r \in BookmarkPending("articleBookmarkResponse")
    /\ LET bookmark_obj == Get(BookmarkedBody(r), "bookmark_article")
           article == Get(bookmark_obj, "article")
           index == IndexOf(bookmark.newsPosts, article)
           sent == IF HasFullName THEN <<GetAllBookmarks>> ELSE <<>>
       IN  /\ bookmark' = [bookmark EXCEPT !.newsPosts = Splice(@, index, 1)]
           /\ bookmarked' = bookmarked \ {article.v}
           /\ bookmarkNet' = (bookmarkNet (-) SetToBag({r}))
                                (+) SetToBag({sent[i] : i \in DOMAIN sent})
           /\ bookmarkLast' = BookmarkDid("articleBookmarkResponse", article.v, sent)
    /\ UNCHANGED <<cookies, href, article_array, bookmarkTimers>>
    /\ UNCHANGED <<groupVars, subscriptionVars>>

\* moment(published_on).format('D MMMM YYYY')
MomentFormat(published_on) ==
    IF published_on = Str("2020-01-01") THEN Str("1 January 2020")
    ELSE Str("Invalid date")
\* "http://images.newscout.in/unsafe/368x276/left/top/" + decodeURIComponent(...)
ImageSrc(cover_image) ==
    <<"http://images.newscout.in/unsafe/368x276/left/top/",
      [decodeURIComponent |-> cover_image]>>
ArticleDict(article) ==
    Obj([id |-> Get(article, "id"),
         header |-> Get(article, "title"),
         altText |-> Get(article, "title"),
         caption |-> Get(article, "blurb"),
         source |-> Get(article, "source"),
         slug |-> <<"/news/article/", Get(article, "slug")>>,
         category |-> Get(article, "category"),
         hash_tags |-> Get(article, "hash_tags"),
         published_on |-> MomentFormat(Get(article, "published_on")),
         src |-> ImageSrc(Get(article, "cover_image"))])

\* the bookmarks the backend holds, in the order of their ids
RECURSIVE BookmarkItems(_)
BookmarkItems(S) ==
    IF S = {} THEN <<>>
    ELSE LET a == CHOOSE x \in S : \A y \in S : x <= y
         IN  <<Obj([article |-> Article(a)])>> \o BookmarkItems(S \ {a})
BookmarksBody == Obj([results |-> Arr(BookmarkItems(bookmarked))])

GetBookmarksArticles(r) ==
    /\ BookmarkAlive
    /\ r \in BookmarkPending("getBookmarksArticles")
    /\ bookmarkTimers < MaxBookmarkTimers
    /\ LET items == Get(BookmarksBody, "results").v
           shown == SelectSeq(items, LAMBDA item :
                        Truthy(Get(Get(item, "article"), "cover_image")))
           news_array == [i \in 1..Len(shown) |->
                             ArticleDict(Get(shown[i], "article"))]
           pushed == [i \in 1..Len(shown) |-> Get(shown[i], "article")]
       IN  /\ Len(article_array \o pushed) <= MaxArticleArray
           /\ article_array' = article_array \o pushed
           /\ bookmark' = [bookmark EXCEPT
                              !.newsPosts = news_array,
                              !.bookmark_ids = article_array',
                              !.is_bookmark_empty =
                                  IF Len(news_array) > 0 THEN FALSE ELSE TRUE]
    /\ bookmarkTimers' = bookmarkTimers + 1
    /\ bookmarkNet' = bookmarkNet (-) SetToBag({r})
    /\ bookmarkLast' = BookmarkEvent("getBookmarksArticles", 0, <<>>, TRUE)
    /\ UNCHANGED <<cookies, bookmarked, href>>
    /\ UNCHANGED <<groupVars, subscriptionVars>>

\* the callback getBookmarksArticles hands to setTimeout(..., 300)
LoadingTimerFires ==
    /\ BookmarkAlive
    /\ bookmarkTimers > 0
    /\ bookmarkTimers' = bookmarkTimers - 1
    /\ bookmark' = [bookmark EXCEPT !.isLoading = FALSE]
    /\ bookmarkLast' = BookmarkDid("loadingTimer", 0, <<>>)
    /\ UNCHANGED <<cookies, bookmarked, href, article_array, bookmarkNet>>
    /\ UNCHANGED <<groupVars, subscriptionVars>>

HandleLogout ==
    /\ BookmarkAlive
    /\ bookmark.is_loggedin
    /\ BookmarkInFlight < MaxBookmarkInFlight
    /\ LET sent == <<BookmarkRequest("GET", BookmarkUrl("ARTICLE_LOGOUT", ""),
                                     TokenHeaders, Undef, "authLogoutResponse")>>
       IN  /\ bookmarkNet' = BookmarkSend(sent)
           /\ bookmarkLast' = BookmarkDid("handleLogout", 0, sent)
    /\ UNCHANGED <<cookies, bookmarked, href, bookmark, article_array,
                   bookmarkTimers>>
    /\ UNCHANGED <<groupVars, subscriptionVars>>

AuthLogoutResponse(r) ==
    /\ BookmarkAlive
    /\ r \in BookmarkPending("authLogoutResponse")
    /\ cookies' = (cookies \ {"token"}) \ {"full_name"}
    /\ bookmark' = [bookmark EXCEPT !.is_loggedin = FALSE,
                                    !.is_captcha = TRUE,
                                    !.bookmark_ids = <<>>]
    /\ href' = "/"
    /\ bookmarkNet' = bookmarkNet (-) SetToBag({r})
    /\ bookmarkLast' = BookmarkDid("authLogoutResponse", 0, <<>>)
    /\ UNCHANGED <<bookmarked, article_array, bookmarkTimers>>
    /\ UNCHANGED <<groupVars, subscriptionVars>>

BookmarkQueries == {"a"}

HandleSearch(query) ==
    /\ BookmarkAlive
    /\ BookmarkInFlight < MaxBookmarkInFlight
    /\ LET sent == <<BookmarkRequest("GET",
                                     BookmarkUrl("SUGGESTIONS",
                                                 <<"q=", query, "&", DOMAIN_QUERY>>),
                                     NoHeaders, Undef, "getSuggestionsResponse")>>
       IN  /\ bookmarkNet' = BookmarkSend(sent)
           /\ bookmarkLast' = BookmarkDid("handleSearch", 0, sent)
    /\ UNCHANGED <<cookies, bookmarked, href, bookmark, article_array,
                   bookmarkTimers>>
    /\ UNCHANGED <<groupVars, subscriptionVars>>

\* the suggestions the backend serves
SuggestionsBody == Obj([result |-> Arr(<<Obj([value |-> Str("a suggestion")])>>)])

GetSuggestionsResponse(r) ==
    /\ BookmarkAlive
    /\ r \in BookmarkPending("getSuggestionsResponse")
    /\ LET result == Get(SuggestionsBody, "result").v
           options_array == [i \in 1..Len(result) |-> Get(result[i], "value")]
       IN  bookmark' = [bookmark EXCEPT !.options = options_array]
    /\ bookmarkNet' = bookmarkNet (-) SetToBag({r})
    /\ bookmarkLast' = BookmarkDid("getSuggestionsResponse", 0, <<>>)
    /\ UNCHANGED <<cookies, bookmarked, href, article_array, bookmarkTimers>>
    /\ UNCHANGED <<groupVars, subscriptionVars>>

\* toggleSwitch(data): the dark theme
ToggleSwitch(data) ==
    /\ BookmarkAlive
    /\ IF data = Bool(TRUE)
       THEN /\ bookmark' = [bookmark EXCEPT !.isChecked = TRUE]
            /\ cookies' = cookies \cup {"isChecked"}
       ELSE /\ bookmark' = [bookmark EXCEPT !.isChecked = FALSE]
            /\ cookies' = cookies \ {"isChecked"}
    /\ bookmarkLast' = BookmarkDid("toggleSwitch", 0, <<>>)
    /\ UNCHANGED <<bookmarked, href, article_array, bookmarkNet, bookmarkTimers>>
    /\ UNCHANGED <<groupVars, subscriptionVars>>

IsSideBarToogle(data) ==
    /\ BookmarkAlive
    /\ IF data = Bool(TRUE)
       THEN /\ bookmark' = [bookmark EXCEPT !.isSideOpen = TRUE]
            /\ cookies' = cookies \cup {"isSideOpen"}
       ELSE /\ bookmark' = [bookmark EXCEPT !.isSideOpen = FALSE]
            /\ cookies' = cookies \ {"isSideOpen"}
    /\ bookmarkLast' = BookmarkDid("isSideBarToogle", 0, <<>>)
    /\ UNCHANGED <<bookmarked, href, article_array, bookmarkNet, bookmarkTimers>>
    /\ UNCHANGED <<groupVars, subscriptionVars>>

\* window.location.href = "/" takes effect: the home page replaces the
\* document, and nothing of the Bookmark page is left
BookmarkUnload ==
    /\ BookmarkAlive
    /\ href = "/"
    /\ bookmark' = [bookmark EXCEPT !.mounted = FALSE]
    /\ bookmarkNet' = EmptyBag
    /\ bookmarkTimers' = 0
    /\ bookmarkLast' = BookmarkEvent("unload", 0, <<>>, FALSE)
    /\ UNCHANGED <<cookies, bookmarked, href, article_array>>
    /\ UNCHANGED <<groupVars, subscriptionVars>>

\* on the home page the user signs in: the session cookies are set
SignIn ==
    /\ ~BookmarkAlive
    /\ href = "/"
    /\ cookies' = cookies \cup SessionCookies
    /\ bookmarkLast' = BookmarkEvent("signIn", 0, <<>>, FALSE)
    /\ UNCHANGED <<bookmarked, href, bookmark, article_array, bookmarkNet,
                   bookmarkTimers>>
    /\ UNCHANGED <<groupVars, subscriptionVars>>

\* the user opens the Bookmark page again: the module is evaluated and the
\* component constructed anew
BookmarkOpen ==
    /\ ~BookmarkAlive
    /\ href = "/"
    /\ href' = "/bookmark/"
    /\ bookmark' = BookmarkConstructed
    /\ article_array' = <<>>
    /\ bookmarkLast' = BookmarkEvent("constructor", 0, <<>>, FALSE)
    /\ UNCHANGED <<cookies, bookmarked, bookmarkNet, bookmarkTimers>>
    /\ UNCHANGED <<groupVars, subscriptionVars>>

\* the Bookmark page: loading the page and its list
BookmarkMounting ==
    \/ BookmarkDidMount
    \/ \E r \in BagToSet(bookmarkNet) : GetMenu(r)
    \/ \E r \in BagToSet(bookmarkNet) : GetBookmarksArticles(r)
    \/ LoadingTimerFires
    \/ BookmarkUnload
    \/ BookmarkOpen

\* the bookmark buttons of the cards
Bookmarking ==
    \/ \E articleId \in Articles : GetArticleId(articleId)
    \/ \E r \in BagToSet(bookmarkNet) : ArticleBookmarkResponse(r)

\* signing in and out
Authenticating ==
    \/ \E data \in {Undef, Bool(TRUE), Bool(FALSE)} : BookmarkToggle(data)
    \/ LoggedInUser(Str("full_name"))
    \/ SignIn
    \/ HandleLogout
    \/ \E r \in BagToSet(bookmarkNet) : AuthLogoutResponse(r)

\* the search box, the theme switch and the side bar of the menu
BookmarkBrowsing ==
    \/ \E query \in BookmarkQueries : HandleSearch(query)
    \/ \E r \in BagToSet(bookmarkNet) : GetSuggestionsResponse(r)
    \/ \E data \in {Bool(TRUE), Bool(FALSE)} : ToggleSwitch(data)
    \/ \E data \in {Bool(TRUE), Bool(FALSE)} : IsSideBarToogle(data)

NextBookmark == BookmarkMounting \/ Bookmarking \/ Authenticating
SpecBookmark == Init /\ [][NextBookmark]_vars

(***************************************************************************)
(* The SubscriptionDetail page: handlers and callbacks.                    *)
(***************************************************************************)
MaxSubscriptionInFlight == 2   \* requests of the page awaiting their response

\* SUBSCRIPTION_URL + ID, and SUBSCRIPTION_URL + ID + '/'
SubscriptionUrl(suffix) ==
    [t |-> "url", base |-> "SUBSCRIPTION_URL", id |-> SUBSCRIPTION_ID,
     suffix |-> suffix]
SubscriptionRequest(method, url, body, callback) ==
    [method |-> method, url |-> url, body |-> body, cb |-> callback]
SubscriptionInFlight == BagCardinality(subscriptionNet)
SubscriptionPending(callback) ==
    {r \in BagToSet(subscriptionNet) : r.cb = callback}

\* componentDidMount, with the getSubs it calls
SubscriptionDidMount ==
    /\ ~subscription.mounted
    /\ LET sent == <<SubscriptionRequest("GET", SubscriptionUrl(""), Undef,
                                         "getSubscriptionData")>>
       IN  /\ subscriptionNet' = subscriptionNet (+) SetToBag({sent[1]})
           /\ subscriptionLast' = SubscriptionDid("componentDidMount", sent, NoToast)
    /\ subscription' = [subscription EXCEPT
                           !.mounted = TRUE,
                           !.loading = Bool(TRUE),
                           !.isSideOpen = Truthy(CookieGet("isSideOpen")),
                           !.isChecked = Truthy(CookieGet("isChecked"))]
    /\ UNCHANGED <<groupVars, bookmarkVars>>

\* x == true
LooseEqualsTrue(x) ==
    CASE x.t = "boolean" -> x.v
      [] x.t = "number" -> x.v = 1
      [] x.t = "string" -> x.v = "1"
      [] OTHER -> FALSE

GetSubscriptionData(r, body) ==
    /\ subscription.mounted
    /\ r \in SubscriptionPending("getSubscriptionData")
    /\ LET loaded == Get(body, "results")
       IN  /\ subscription' =
                 [subscription EXCEPT
                     !.email = Get(loaded, "email"),
                     !.subs_type = Get(loaded, "subs_type"),
                     !.payement_mode = Get(loaded, "payement_mode"),
                     !.autoRenew = IF LooseEqualsTrue(Get(loaded, "auto_renew"))
                                   THEN Str("Yes") ELSE Str("No"),
                     !.createdOn = Get(loaded, "created_at"),
                     !.id = Get(loaded, "id"),
                     !.loading = Bool(FALSE)]
           /\ subscriptionLast' =
                 SubscriptionEvent("getSubscriptionData", loaded, <<>>, NoToast,
                                   Get(loaded, "id"))
    /\ subscriptionNet' = subscriptionNet (-) SetToBag({r})
    /\ UNCHANGED <<groupVars, bookmarkVars>>

\* handleChange(e) of the subscription type select
SubscriptionHandleChange(e) ==
    /\ subscription.mounted
    /\ subscription' = [subscription EXCEPT !.subs_type = Get(e, "value")]
    /\ subscriptionLast' = SubscriptionDid("handleChange", <<>>, NoToast)
    /\ UNCHANGED subscriptionNet
    /\ UNCHANGED <<groupVars, bookmarkVars>>

HandleRenewChange(e) ==
    /\ subscription.mounted
    /\ subscription' = [subscription EXCEPT !.autoRenew = Get(e, "value")]
    /\ subscriptionLast' = SubscriptionDid("handleRenewChange", <<>>, NoToast)
    /\ UNCHANGED subscriptionNet
    /\ UNCHANGED <<groupVars, bookmarkVars>>

\* FormData.set(name, value): the value is converted to a string
FormString(x) ==
    CASE x.t = "string" -> x
      [] x.t = "number" -> Str(ToString(x.v))
      [] x.t = "boolean" -> Str(IF x.v THEN "true" ELSE "false")
      [] OTHER -> Str(x.t)

SubmitForm ==
    /\ subscription.mounted
    /\ SubscriptionInFlight < MaxSubscriptionInFlight
    /\ LET body == [subs_type |-> FormString(subscription.subs_type),
                    id |-> FormString(subscription.id),
                    auto_renew |-> FormString(subscription.autoRenew)]
           sent == <<SubscriptionRequest("POST", SubscriptionUrl("/"), body,
                                         "renderResponse")>>
       IN  /\ subscriptionNet' = subscriptionNet (+) SetToBag({sent[1]})
           /\ subscriptionLast' = SubscriptionDid("submitForm", sent, NoToast)
    /\ UNCHANGED subscription
    /\ UNCHANGED <<groupVars, bookmarkVars>>

\* what the backend answers the POST with
SubmitResults == {Str("success"), Str("error"), Undef}

RenderResponse(r, outcome) ==
    /\ subscription.mounted
    /\ r \in SubscriptionPending("renderResponse")
    /\ subscriptionNet' = subscriptionNet (-) SetToBag({r})
    /\ subscriptionLast' =
          SubscriptionEvent("renderResponse", outcome, <<>>,
                            IF outcome = Str("success")
                            THEN Toast("Subscription Updated successfully!",
                                       "success")
                            ELSE Toast("Something went wrong!", "error"),
                            subscriptionLast.fetched)
    /\ UNCHANGED subscription
    /\ UNCHANGED <<groupVars, bookmarkVars>>

SubscriptionTypes == {Obj([value |-> Str(v), label |-> Str(v)]) :
                         v \in {"Basic", "Monthly", "Yearly"}}
RenewOptions == {Obj([value |-> Str(v), label |-> Str(v)]) : v \in {"Yes", "No"}}

NextSubscription ==
    \/ SubscriptionDidMount
    \/ \E r \in BagToSet(subscriptionNet), body \in SubscriptionBodies :
          GetSubscriptionData(r, body)
    \/ \E e \in SubscriptionTypes : SubscriptionHandleChange(e)
    \/ \E e \in RenewOptions : HandleRenewChange(e)
    \/ SubmitForm
    \/ \E r \in BagToSet(subscriptionNet), outcome \in SubmitResults :
          RenderResponse(r, outcome)
SpecSubscription == Init /\ [][NextSubscription]_vars

\* the two responses every scenario starts with
Mounting ==
    \/ ComponentDidMount
    \/ \E r \in BagToSet(net) : GetCampaignCategories(r)
    \/ \E r \in BagToSet(net), body \in GetBodies : GetGroupsData(r, body)

Searching ==
    \/ \E value \in Queries \cup {""} : HandleQueryChange(value)
    \/ \E key \in Keys : HandleKeyPress(key)

Scrolling == \E atBottom \in BOOLEAN : HandleScroll(atBottom)

Changing ==
    \E field \in {"category", "campaign"}, is_editable \in BOOLEAN :
       \E e \in Selections(field) : HandleChange(field, e, is_editable)

Checking == \E e \in Selections("is_active") : HandleChange("is_active", e, FALSE)

Creating ==
    \/ Toggle
    \/ GroupSubmit
    \/ \E r \in BagToSet(net) : GroupSubmitResponse(r)
    \/ \E tm \in BagToSet(timers) : CloseTimerFires(tm)

Editing ==
    \/ \E index \in 1..MaxRows : EditRow(index)
    \/ \E index \in 1..MaxRows : CancelRow(index)
    \/ \E id \in Ids : SubmitRow(id)
    \/ \E r \in BagToSet(net) : GroupUpdateResponse(r)

Deleting ==
    \/ \E id \in Ids : DeleteRow(id)
    \/ \E r \in BagToSet(net) : DeleteGroupResponse(r)
    \/ \E tm \in BagToSet(timers) : FadeTimerFires(tm)
    \/ Unload

Failing == \E r \in BagToSet(net) : PutRequestFails(r)

\* every handler and callback of the component
Next ==
    \/ Mounting \/ Searching \/ Scrolling \/ Changing \/ Checking
    \/ Creating \/ Editing \/ Failing \/ Deleting
    \/ NextBookmark \/ BookmarkBrowsing
    \/ NextSubscription
Spec == Init /\ [][Next]_vars

\* the list view: loading, searching and scrolling
NextPaging == Mounting \/ Searching \/ Scrolling
SpecPaging == Init /\ [][NextPaging]_vars

\* the list view with inline edit
NextEdit == Mounting \/ Changing \/ Editing
SpecEdit == Init /\ [][NextEdit]_vars

\* the list view with the creation modal
NextCreate == Mounting \/ Scrolling \/ Changing \/ Creating
SpecCreate == Init /\ [][NextCreate]_vars

\* the list view with inline edit over a transport that can fail
NextSave == Mounting \/ Editing \/ Failing
SpecSave == Init /\ [][NextSave]_vars

\* the list view with delete
NextDelete == Mounting \/ Searching \/ Deleting
SpecDelete == Init /\ [][NextDelete]_vars

\* the list view with inline edit and the creation modal, the form fields
\* being those the edited rows bring
NextForms == Mounting \/ Creating \/ Editing
SpecForms == Init /\ [][NextForms]_vars

(***************************************************************************)
(* Properties                                                              *)
(***************************************************************************)
\* the number of requests in flight that satisfy Is
InFlightOf(Is(_)) ==
    BagCardinality([r \in {x \in BagToSet(net) : Is(x)} |-> net[r]])

\* a GET of a next cursor, issued by getNext
IsNextPage(r) == r.cb = "getGroupsData" /\ r.by.op = "getNext"
\* a GET of the first page: getGroups, or the search of handleKeyPress
IsFirstPage(r) == r.cb = "getGroupsData" /\ r.by.op # "getNext"
\* a GET of the whole collection, issued by getGroups
IsReload(r) == r.cb = "getGroupsData" /\ r.url = GROUP_URL

\* the rows a collection response carries
RowsOf(body) == IF body.t = "array" THEN body.v ELSE Get(body, "results").v

\* C1: at most one next-page GET is in flight at any time: no second
\* next-page request is issued while an earlier one is unanswered.
C1_OneNextPageInFlight == InFlightOf(IsNextPage) <= 1

\* C2: when the response of a first-page load (mount, search, reload) has
\* been applied, the collection is exactly the rows of that response.
C2_FirstPageReplaces ==
    (last.op = "getGroupsData" /\ IsFirstPage(last.req))
        => results = RowsOf(last.data)

\* C3: while the next cursor is null, a scroll to the bottom issues no GET
\* and changes neither the collection, the cursors, the page counter nor
\* the loading flag.
C3_NoNextNoLoad ==
    [][(next = Null /\ last'.op = "handleScroll" /\ last'.arg = 1)
          => /\ last'.sent = <<>>
             /\ UNCHANGED <<results, next, previous, page, loading, net>>]_vars

\* C3 witness: a first page of N > 0 rows with next = null has been applied
\* and a scroll to the bottom has just been handled.
C3_Witness ==
    /\ last.op = "handleScroll" /\ last.arg = 1
    /\ next = Null /\ Len(results) > 0 /\ ~loading
    /\ InFlight = 0

\* C4: at most one full-collection reload (the GET of getGroups) is
\* outstanding at any time, whatever is submitted and however often.
C4_OneReloadOutstanding == InFlightOf(IsReload) <= 1

\* C5: editRow followed immediately by cancelRow on the same row leaves the
\* collection and FormFields as they were before editRow, and calls no
\* transport.
C5_EditCancelRestores ==
    (last.op = "cancelRow" /\ last.pre # NoSnapshot)
        => /\ results = last.pre.results
           /\ fields = last.pre.fields
           /\ last.sent = <<>>

\* C6: Save on row id with valid fields issues exactly one PUT; the response
\* of that PUT issues exactly one reload, and once it is applied the in-edit
\* flag of row id is false.
C6_OnePutOneReload ==
    /\ (last.op = "submitRow" /\ FormIsValid(fields))
          => Len(last.sent) = 1 /\ last.sent[1].method = "PUT"
    /\ last.op = "groupUpdateResponse"
          => /\ Len(last.sent) = 1 /\ IsReload(last.sent[1])
             /\ ~rows[last.req.by.arg]

\* C7: the PUT that Save on row id issues is addressed to entity id and
\* carries id in its body.
C7_PutIsForTheRowSaved ==
    (last.op = "submitRow" /\ last.sent # <<>>)
        => /\ last.sent[1].url = EntityUrl(Num(last.arg))
           /\ Get(last.sent[1].body, "id") = Num(last.arg)

\* a field that holds nothing: absent, null, the empty string or an empty list
IsEmptyValue(x) ==
    \/ x \in {Undef, Null}
    \/ x.t = "string" /\ x.v = ""
    \/ x.t = "array" /\ Len(x.v) = 0

\* C8: after validation the error mapping has an entry for exactly the
\* required fields (category, campaign) that are empty, and the form is
\* reported valid iff the mapping is empty.
C8_ErrorsForEmptyRequired ==
    last.op \in {"handleChange", "groupSubmit", "submitRow"}
        => /\ DOMAIN errors.v =
                {f \in {"category", "campaign"} : IsEmptyValue(Get(fields, f))}
           /\ FormIsValid(fields) <=> errors = EmptyObj

\* C9: a Delete click on row id sends one DELETE to GROUP_URL + id + "/";
\* its response calls for the reload, and the row then taken out of the
\* table is the row of entity id.
C9_DeleteRemovesThatRow ==
    /\ last.op = "deleteRow"
          => /\ Len(last.sent) = 1 /\ last.sent[1].method = "DELETE"
             /\ last.sent[1].url = EntityUrl(Num(last.arg))
    /\ last.op = "deleteGroupResponse" => reloading
    /\ last.op = "fadeTimer" => last.removed = last.arg

\* C10: Submit with valid fields issues one POST; its response shows the
\* success message; the delayed callback closes the modal, clears the
\* message, empties the collection and issues the reload; and when that
\* reload is answered the collection is the first page it fetched.
C10_CreateThenFreshPage ==
    /\ (last.op = "groupSubmit" /\ FormIsValid(fields))
          => Len(last.sent) = 1 /\ last.sent[1].method = "POST"
    /\ last.op = "groupSubmitResponse" => formSuccess
    /\ last.op = "closeTimer"
          => /\ ~modal /\ ~formSuccess /\ results = <<>>
             /\ Len(last.sent) = 1 /\ IsReload(last.sent[1])
    /\ (last.op = "getGroupsData" /\ last.req.by.op = "closeTimer")
          => results = RowsOf(last.data)

\* C11: a row's in-edit flag goes from false to true only by editRow on that
\* row, and from true to false only by cancelRow on that row or by the
\* response to the Save pressed on that row; beginEdit, cancelEdit, Save
\* and its response for one row leave the flag of every other row alone
C11_RowStateMachine ==
    [][\A id \in Ids :
          rows'[id] # rows[id] =>
             \/ ~rows[id] /\ last'.op = "editRow"
                          /\ RowId(results[last'.arg]) = id
             \/ rows[id] /\ last'.op = "cancelRow"
                         /\ RowId(results[last'.arg]) = id
             \/ rows[id] /\ last'.op = "groupUpdateResponse"
                         /\ last'.req.by.arg = id]_vars

\* C12: when the creation modal is opened, and after cancelRow, after the
\* delayed close that completes a creation and after the response that
\* completes an update, FormFields holds nothing of an earlier edit or
\* creation; a creation POST carries no entity id
C12_FormFieldsFresh ==
    /\ (last.op = "toggle" /\ modal) => fields = EmptyObj
    /\ last.op \in {"cancelRow", "closeTimer", "groupUpdateResponse"}
          => fields = EmptyObj
    /\ (last.op = "groupSubmit" /\ last.sent # <<>>)
          => Get(last.sent[1].body, "id") = Undef

\* C13: when the PUT of a row's Save fails, the in-edit flags and the
\* collection stay as they are, no request is issued, and the one
\* notification is at error level
C13_FailedUpdateKeepsEditing ==
    [][(last'.op = "requestFailed" /\ last'.req.cb = "groupUpdateResponse")
          => /\ rows' = rows
             /\ results' = results
             /\ last'.sent = <<>>
             /\ net' = Take(last'.req)
             /\ last'.toast = Toast(last'.toast.msg, "error")]_vars
\* a Save has failed: its row is still in edit mode and no reload is under way
C13_Witness ==
    /\ last.op = "requestFailed"
    /\ last.req.by.op = "submitRow"
    /\ rows[last.req.by.arg]
    /\ Pending("getGroupsData") = {}
    /\ Len(results) > 0

\* the "Form submitted successfully." line of the modal is on screen
SuccessShown == modal /\ formSuccess

\* C14: when handleValidation finds a required field empty, Submit and Save
\* send nothing, the errors are stored for display, the success message is
\* not shown, and the modal flag, the in-edit flags and the collection stay
\* as they are
C14_InvalidBlocksSubmission ==
    [][(last'.op \in {"groupSubmit", "submitRow"}
          /\ ValidationErrors(fields) # EmptyObj)
          => /\ last'.sent = <<>>
             /\ net' = net
             /\ errors' = ValidationErrors(fields)
             /\ ~SuccessShown'
             /\ modal' = modal
             /\ rows' = rows
             /\ results' = results]_vars
\* Save was pressed on a row whose campaign is empty: nothing was sent, the
\* error is stored and the row is still in edit mode
C14_Witness ==
    /\ last.op = "submitRow"
    /\ last.sent = <<>>
    /\ Get(errors, "campaign") = required_msg
    /\ rows[last.arg]
    /\ InFlight = 0

\* s is a prefix of t
IsPrefix(s, t) == Len(s) <= Len(t) /\ SubSeq(t, 1, Len(s)) = s
\* the entity ids of the rows of a collection, in order
IdsOf(s) == [i \in DOMAIN s |-> RowId(s[i])]

\* C17: a scroll to the bottom with a next cursor and no collection GET in
\* flight sets loading and issues exactly one GET for that cursor; the
\* response to a next-page GET appends its rows to the collection, stores
\* its cursors and clears loading; the collection loses rows only by a
\* reset (search, create, update, or the page reload of delete)
C17_NextPageAppends ==
    [][/\ (last'.op = "handleScroll" /\ last'.arg = 1 /\ Truthy(next)
             /\ Pending("getGroupsData") = {})
          => /\ loading'
             /\ Len(last'.sent) = 1
             /\ last'.sent[1].method = "GET"
             /\ last'.sent[1].url = next
             /\ net' = SendAll(last'.sent)
             /\ results' = results
       /\ (last'.op = "getGroupsData" /\ IsNextPage(last'.req))
          => /\ results' = results \o RowsOf(last'.data)
             /\ next' = Get(last'.data, "next")
             /\ previous' = Get(last'.data, "previous")
             /\ ~loading'
       /\ ~IsPrefix(IdsOf(results), IdsOf(results'))
          => last'.op \in {"handleKeyPress", "closeTimer",
                           "groupUpdateResponse", "constructor"}]_vars
\* a next page of one row has been appended to a collection of one row
C17_Witness ==
    /\ last.op = "getGroupsData"
    /\ IsNextPage(last.req)
    /\ Len(RowsOf(last.data)) = 1
    /\ Len(results) = 2
    /\ ~loading

\* C15: on the Bookmark page, once a bookmarks response has been applied,
\* is_bookmark_empty is true exactly when newsPosts is empty, also between
\* a toggle response and the refetch response that follows it
C15_EmptyStateIffNoPosts ==
    bookmarkLast.fetched
       => (bookmark.is_bookmark_empty <=> bookmark.newsPosts = <<>>)

\* the posts of s other than the one of article a, in their order
WithoutArticle(s, a) == SelectSeq(s, LAMBDA post : Get(post, "id") # Num(a))

\* C16: the response to the toggle of article a takes a out of newsPosts
\* and leaves every other post in place and in order; with the full_name
\* cookie set, exactly one GET of all bookmarks is issued
C16_ToggleRemovesThatArticle ==
    [][bookmarkLast'.op = "articleBookmarkResponse"
          => /\ bookmark'.newsPosts =
                   WithoutArticle(bookmark.newsPosts, bookmarkLast'.arg)
             /\ HasFullName
                   => bookmarkLast'.sent = <<GetAllBookmarks>>]_vars

\* a request to one of the two bookmark endpoints that carries a token
IsTokenBookmarkRequest(r) ==
    /\ r.url.base \in {"ARTICLE_BOOKMARK", "ALL_ARTICLE_BOOKMARK"}
    /\ r.headers # NoHeaders

\* C18: without the full_name cookie, mounting redirects to "/" and sends
\* no authenticated request, and the bookmark button opens the login modal
\* and sends nothing; with the cookie, mounting sets is_loggedin and sends
\* the bookmarks GET; no handler sends a bookmark request with a token
\* while the cookie is absent
C18_NoBookmarkRequestWithoutSession ==
    [][/\ (bookmarkLast'.op = "componentDidMount" /\ ~HasFullName)
          => /\ href' = "/"
             /\ \A i \in DOMAIN bookmarkLast'.sent :
                   bookmarkLast'.sent[i].headers = NoHeaders
       /\ (bookmarkLast'.op = "getArticleId" /\ ~HasFullName)
          => /\ bookmark'.modal
             /\ bookmarkLast'.sent = <<>>
             /\ bookmarkNet' = bookmarkNet
       /\ (bookmarkLast'.op = "componentDidMount" /\ HasFullName)
          => /\ bookmark'.is_loggedin
             /\ href' = href
             /\ \E i \in DOMAIN bookmarkLast'.sent :
                   bookmarkLast'.sent[i] = GetAllBookmarks
       /\ \A r \in BagToSet(bookmarkNet') :
             (IsTokenBookmarkRequest(r) /\ CopiesIn(r, bookmarkNet')
                                            > CopiesIn(r, bookmarkNet))
                => HasFullName]_vars
\* after the logout response has removed the cookies, the bookmark button
\* of a card has opened the login modal and sent nothing
C18_Witness ==
    /\ bookmarkLast.op = "getArticleId"
    /\ ~HasFullName
    /\ bookmark.modal
    /\ bookmarkLast.sent = <<>>
    /\ ~bookmark.is_loggedin

\* C19: submitForm issues one POST to the subscription's URL with the
\* current subs_type and auto_renew and with the id that the last fetch
\* response loaded; the response produces one notification, at success
\* level when results is "success" and at error level otherwise, and
\* changes nothing of the form
C19_SubmitPostsLoadedId ==
    [][/\ subscriptionLast'.op = "submitForm"
             => /\ Len(subscriptionLast'.sent) = 1
                /\ subscriptionNet' =
                      subscriptionNet (+) SetToBag({subscriptionLast'.sent[1]})
                /\ LET r == subscriptionLast'.sent[1]
                   IN  /\ r.method = "POST"
                       /\ r.url = SubscriptionUrl("/")
                       /\ r.body.subs_type = subscription.subs_type
                       /\ r.body.auto_renew = subscription.autoRenew
                       /\ subscriptionLast.fetched # Undef
                       /\ r.body.id = FormString(subscriptionLast.fetched)
       /\ subscriptionLast'.op = "renderResponse"
             => /\ subscriptionLast'.toast.t = "toast"
                /\ subscriptionLast'.toast.level =
                      IF subscriptionLast'.data = Str("success")
                      THEN "success" ELSE "error"
                /\ subscription' = subscription]_vars
====
